---- MODULE Spec2Model ----
(***************************************************************************)
(* Identifier (ISBN-13) generation and change audit of the bookprocess     *)
(* application: utils.py (check digit, nationality code normalisation,     *)
(* bounded-retry generation), models.py (Book, BookAuthor), admin.py       *)
(* (BookAdmin create/update orchestration, snapshot and diff), services.py *)
(* (AuditLogService) and the bulk book import command.                     *)
(*                                                                         *)
(* A Python str is a sequence of one-character tokens ("6", "a", " ").     *)
(* Display names and titles are one-token strings.  None is a value that   *)
(* is no string.                                                           *)
(***************************************************************************)
EXTENDS Integers, Sequences, FiniteSets, TLC

\* books, rels and nationality are the tables; past is a history of the isbn
\* values changes replaced, with the books that held them; last and gen record the last operation
\* and the last call of the generator; pin and pout a call of a pure function;
\* proc holds the requests that are served step by step, side by side: the
\* change of a book (chg) and the insert of a BookAuthor row (ins)
VARIABLES books, rels, nationality, past, last, gen, pin, pout, proc

vars == <<books, rels, nationality, past, last, gen, pin, pout, proc>>

-----------------------------------------------------------------------------
(* Bounds of the model *)

\* max_tries of generate_unique_isbn_for_nationality (5000 by default)
MaxTries == 2
\* randint(0, 999999) is drawn from 0..MaxPub
MaxPub == 0
\* primary keys of Book rows are 1..MaxBooks
MaxBooks == 2
\* BookAuthor.order values are 0..MaxOrder
MaxOrder == 2

-----------------------------------------------------------------------------
(* Python values *)

None == <<"None">>

AsciiDigits == {"0", "1", "2", "3", "4", "5", "6", "7", "8", "9"}

\* Characters outside ASCII for which str.isdigit() is True:
\* "ar6" is U+0666 ARABIC-INDIC DIGIT SIX, a decimal digit: int() gives 6;
\* "sup2" is U+00B2 SUPERSCRIPT TWO, no decimal digit: int() raises ValueError.
UnicodeDigits == {"ar6", "sup2"}

\* the characters int() reads as decimal digits
DecimalDigits == AsciiDigits \cup {"ar6"}

\* ch.isdigit()
IsDigit(ch) == ch \in AsciiDigits \cup UnicodeDigits

\* int(ch) of one decimal digit
DigitVal(ch) ==
    CASE ch = "0" -> 0 [] ch = "1" -> 1 [] ch = "2" -> 2 [] ch = "3" -> 3
      [] ch = "4" -> 4 [] ch = "5" -> 5 [] ch = "6" -> 6 [] ch = "7" -> 7
      [] ch = "8" -> 8 [] ch = "9" -> 9 [] ch = "ar6" -> 6

\* str(n) of one digit 0..9
DigitChar(n) ==
    CASE n = 0 -> "0" [] n = 1 -> "1" [] n = 2 -> "2" [] n = 3 -> "3"
      [] n = 4 -> "4" [] n = 5 -> "5" [] n = 6 -> "6" [] n = 7 -> "7"
      [] n = 8 -> "8" [] n = 9 -> "9"

\* outcome of a call: a returned value or a raised exception
Return(v) == [exc |-> "none", val |-> v]
Raise(e) == [exc |-> e, val |-> None]

\* "not x" of an Optional[str]
Falsy(x) == x = None \/ x = <<>>

\* s.isdigit(): non-empty and every character a digit
StrIsDigit(s) == Len(s) > 0 /\ \A i \in 1..Len(s) : IsDigit(s[i])

\* true when int() reads every character of s as a decimal digit
IsDecimal(s) == \A i \in 1..Len(s) : s[i] \in DecimalDigits

RECURSIVE Pow10(_)
Pow10(k) == IF k = 0 THEN 1 ELSE 10 * Pow10(k - 1)

\* int(s) of a string of decimal digits
RECURSIVE IntOfDigits(_)
IntOfDigits(s) ==
    IF Len(s) = 0 THEN 0
    ELSE 10 * IntOfDigits(SubSeq(s, 1, Len(s) - 1)) + DigitVal(s[Len(s)])

\* int(s): ValueError unless s is a non-empty string of decimal digits
PyInt(s) ==
    IF Len(s) > 0 /\ IsDecimal(s) THEN Return(IntOfDigits(s))
    ELSE Raise("ValueError")

\* "".join(ch for ch in s if ch.isdigit())
RECURSIVE KeepDigits(_)
KeepDigits(s) ==
    IF Len(s) = 0 THEN <<>>
    ELSE IF IsDigit(Head(s)) THEN <<Head(s)>> \o KeepDigits(Tail(s))
    ELSE KeepDigits(Tail(s))

\* s.rjust(w, "0")
RECURSIVE RJustZero(_, _)
RJustZero(s, w) == IF Len(s) >= w THEN s ELSE RJustZero(<<"0">> \o s, w)

\* f"{n:06d}"
Fmt06(n) == [i \in 1..6 |-> DigitChar((n \div Pow10(6 - i)) % 10)]

-----------------------------------------------------------------------------
(* utils.py *)

PREFIXES == {<<"9", "7", "8">>, <<"9", "7", "9">>}

\* sum of int(ch) * weight over the characters of digits, weight 1 at even
\* 0-based positions and 3 at odd ones
RECURSIVE WeightedTotal(_, _)
WeightedTotal(digits, n) ==
    IF n = 0 THEN 0
    ELSE WeightedTotal(digits, n - 1)
         + DigitVal(digits[n]) * (IF (n - 1) % 2 = 0 THEN 1 ELSE 3)

\* the sum with the two weights exchanged
RECURSIVE WeightedTotalSwapped(_, _)
WeightedTotalSwapped(digits, n) ==
    IF n = 0 THEN 0
    ELSE WeightedTotalSwapped(digits, n - 1)
         + DigitVal(digits[n]) * (IF (n - 1) % 2 = 0 THEN 3 ELSE 1)

\* isbn13_check_digit with weight 3 at the even 0-based positions
isbn13_check_digit_swapped(digits12) ==
    IF Len(digits12) # 12 \/ ~StrIsDigit(digits12) THEN Raise("ValueError")
    ELSE IF ~IsDecimal(digits12) THEN Raise("ValueError")
    ELSE Return(<<DigitChar((10 - (WeightedTotalSwapped(digits12, 12) % 10)) % 10)>>)

\* int(ch) raises ValueError too for a digit character that is no decimal digit
isbn13_check_digit(digits12) ==
    IF Len(digits12) # 12 \/ ~StrIsDigit(digits12) THEN Raise("ValueError")
    ELSE IF ~IsDecimal(digits12) THEN Raise("ValueError")
    ELSE Return(<<DigitChar((10 - (WeightedTotal(digits12, 12) % 10)) % 10)>>)

_normalize_nat_code(nat_code) ==
    IF Falsy(nat_code) THEN <<"0", "0", "0">>
    ELSE LET digits == KeepDigits(nat_code) IN
         IF Len(digits) = 0 THEN <<"0", "0", "0">>
         ELSE IF Len(digits) >= 3 THEN SubSeq(digits, 1, 3)
         ELSE RJustZero(digits, 3)

\* _is_allowed_nat_code with the upper bound of the first range exclusive
_is_allowed_nat_code_exclusive(code3) ==
    IF code3 \in {<<"0", "0", "0">>, <<"1", "1", "1">>} THEN TRUE
    ELSE LET n == PyInt(code3) IN
         IF n.exc # "none" THEN FALSE
         ELSE IF 600 <= n.val /\ n.val < 621 THEN TRUE
         ELSE IF 950 <= n.val /\ n.val <= 989 THEN TRUE
         ELSE FALSE

_is_allowed_nat_code(code3) ==
    IF code3 \in {<<"0", "0", "0">>, <<"1", "1", "1">>} THEN TRUE
    ELSE LET n == PyInt(code3) IN
         IF n.exc # "none" THEN FALSE
         ELSE IF 600 <= n.val /\ n.val <= 621 THEN TRUE
         ELSE IF 950 <= n.val /\ n.val <= 989 THEN TRUE
         ELSE FALSE

\* One random draw of the loop: choice(PREFIXES) and randint(0, 999999).
Draws == [prefix : PREFIXES, pub : 0..MaxPub]

\* candidate assembled from one draw
Candidate(nat, d) ==
    LET first12 == d.prefix \o nat \o Fmt06(d.pub)
        control == isbn13_check_digit(first12)
    IN  IF control.exc # "none" THEN Raise(control.exc)
        ELSE Return(first12 \o control.val)

\* the loop without its existence query: the first candidate is returned
GenLoopUnchecked(nat, taken, max_tries, i, queries) ==
    IF i >= max_tries
    THEN {[exc |-> "RuntimeError", val |-> None, ndraws |-> i, queries |-> queries]}
    ELSE UNION {
           LET c == Candidate(nat, d) IN
           IF c.exc # "none"
           THEN {[exc |-> c.exc, val |-> None, ndraws |-> i + 1, queries |-> queries]}
           ELSE {[exc |-> "none", val |-> c.val, ndraws |-> i + 1, queries |-> queries]}
           : d \in Draws}

\* the loop returning its last candidate where it should raise
RECURSIVE GenLoopStale(_, _, _, _, _)
GenLoopStale(nat, taken, max_tries, i, queries) ==
    IF i >= max_tries
    THEN {[exc |-> "RuntimeError", val |-> None, ndraws |-> i, queries |-> queries]}
    ELSE UNION {
           LET c == Candidate(nat, d) IN
           IF c.exc # "none"
           THEN {[exc |-> c.exc, val |-> None, ndraws |-> i + 1, queries |-> queries]}
           ELSE IF c.val \notin taken \/ i + 1 >= max_tries
           THEN {[exc |-> "none", val |-> c.val, ndraws |-> i + 1,
                  queries |-> Append(queries, [isbn |-> c.val, exists |-> c.val \in taken])]}
           ELSE GenLoopStale(nat, taken, max_tries, i + 1,
                             Append(queries, [isbn |-> c.val, exists |-> TRUE]))
           : d \in Draws}

\* the loop making one draw more than max_tries
RECURSIVE GenLoopOneMore(_, _, _, _, _)
GenLoopOneMore(nat, taken, max_tries, i, queries) ==
    IF i > max_tries
    THEN {[exc |-> "RuntimeError", val |-> None, ndraws |-> i, queries |-> queries]}
    ELSE UNION {
           LET c == Candidate(nat, d) IN
           IF c.exc # "none"
           THEN {[exc |-> c.exc, val |-> None, ndraws |-> i + 1, queries |-> queries]}
           ELSE IF c.val \notin taken
           THEN {[exc |-> "none", val |-> c.val, ndraws |-> i + 1,
                  queries |-> Append(queries, [isbn |-> c.val, exists |-> FALSE])]}
           ELSE GenLoopOneMore(nat, taken, max_tries, i + 1,
                               Append(queries, [isbn |-> c.val, exists |-> TRUE]))
           : d \in Draws}

\* for _ in range(max_tries): ... ; taken is the set of isbn values of the
\* Book table, i the number of draws made so far, queries the existence
\* queries made so far with their answers.  The result is the set of the
\* outcomes the loop can have, one for every sequence of draws it can read.
RECURSIVE GenLoop(_, _, _, _, _)
GenLoop(nat, taken, max_tries, i, queries) ==
    IF i >= max_tries
    THEN {[exc |-> "RuntimeError", val |-> None, ndraws |-> i, queries |-> queries]}
    ELSE UNION {
           LET c == Candidate(nat, d) IN
           IF c.exc # "none"
           THEN {[exc |-> c.exc, val |-> None, ndraws |-> i + 1, queries |-> queries]}
           ELSE IF c.val \notin taken
           THEN {[exc |-> "none", val |-> c.val, ndraws |-> i + 1,
                  queries |-> Append(queries, [isbn |-> c.val, exists |-> FALSE])]}
           ELSE GenLoop(nat, taken, max_tries, i + 1,
                        Append(queries, [isbn |-> c.val, exists |-> TRUE]))
           : d \in Draws}

\* the code the generator puts into the isbn: nat = _normalize_nat_code(nat_code),
\* replaced by "000" when it is not allowed
SeedCode(nat_code) ==
    LET nat == _normalize_nat_code(nat_code)
    IN  IF ~_is_allowed_nat_code(nat) THEN <<"0", "0", "0">> ELSE nat

\* the outcomes of generate_unique_isbn_for_nationality(nat_code, max_tries)
generate_unique_isbn_for_nationality(nat_code, max_tries, taken) ==
    {[input |-> nat_code] @@ r : r \in GenLoop(SeedCode(nat_code), taken, max_tries, 0, <<>>)}

-----------------------------------------------------------------------------
(* models.py: rows of the database *)

Authors == {"A1", "A2"}

Nationalities == {"N600", "N601", "N500"}

\* a nationality whose code has fewer than 3 characters
ShortNationalities == {"N7"}

\* Nationality.code
Code(n) ==
    CASE n = "N600" -> <<"6", "0", "0">>
      [] n = "N601" -> <<"6", "0", "1">>
      [] n = "N500" -> <<"5", "0", "0">>
      [] n = "N7" -> <<"7">>

Titles == {<<"T1">>, <<"T2">>}

Orders == 0..MaxOrder

BookIds == 1..MaxBooks

\* str(author): "First Last"
AuthorStr(a) == <<a>>

\* a Book row as the admin's add form stores it: isbn is not editable and has
\* no default, so it is inserted as the empty string
NewBook(title) ==
    [title |-> title, genre |-> <<"G">>, cover |-> None, adapted |-> FALSE,
     film_title |-> None, isbn |-> <<>>]

\* Book.objects.filter(isbn=x).exists() is x \in Taken(bks)
Taken(bks) == {bks[b].isbn : b \in DOMAIN bks}

\* book.save(update_fields=['isbn']) of book b: Book.isbn is unique
Book_save_isbn(bks, b, isbn) ==
    IF \E k \in DOMAIN bks \ {b} : bks[k].isbn = isbn THEN Raise("IntegrityError")
    ELSE Return([bks EXCEPT ![b].isbn = isbn])

\* the primary key of the next inserted Book
NextPk(bks) == Cardinality(DOMAIN bks) + 1

\* book.bookauthor_set
BookRels(rs, b) == {r \in rs : r.book = b}

SetMax(S) == CHOOSE x \in S : \A y \in S : y <= x

\* BookAuthor.save giving a new row the highest order there is
BookAuthor_save_max(rs, row) ==
    IF row.order = 1
    THEN LET existing == {r.order : r \in {q \in rs : q.book = row.book}} IN
         rs \cup {[row EXCEPT !.order =
                     IF existing # {}
                     THEN CHOOSE x \in existing : \A y \in existing : y <= x
                     ELSE 1]}
    ELSE rs \cup {row}

\* BookAuthor.save of a new row: order 1 means "not set"
BookAuthor_save(rs, row) ==
    IF row.order = 1
    THEN LET existing == {r.order : r \in BookRels(rs, row.book)} IN
         rs \cup {[row EXCEPT !.order =
                     IF existing # {} THEN SetMax(existing) + 1 ELSE 1]}
    ELSE rs \cup {row}

\* BookAuthor.objects.create without the constraint unique_book_author
BookAuthor_objects_create_unchecked(rs, row) ==
    [exc |-> "none",
     val |-> IF row.order = 1
             THEN LET existing == {r.order : r \in {q \in rs : q.book = row.book}} IN
                  rs \cup {[row EXCEPT !.order =
                              IF existing # {}
                              THEN (CHOOSE x \in existing : \A y \in existing : y <= x) + 1
                              ELSE 1]}
             ELSE rs \cup {row}]

\* BookAuthor.objects.create(book, author, order): save() and the INSERT, which
\* the constraint unique_book_author rejects for a pair that has a row
BookAuthor_objects_create(rs, row) ==
    IF \E r \in rs : r.book = row.book /\ r.author = row.author
    THEN Raise("IntegrityError")
    ELSE Return(BookAuthor_save(rs, row))

\* the rows of seq saved one after the other
RECURSIVE SaveRows(_, _)
SaveRows(rs, seq) ==
    IF Len(seq) = 0 THEN rs ELSE SaveRows(BookAuthor_save(rs, Head(seq)), Tail(seq))

\* book.bookauthor_set.order_by('order'): every order of the rows that is ascending
\* in order; rows of equal order come in an order the database chooses, the
\* same one for the queries of one operation on rows it has not written
OrderedRels(rs, b) ==
    LET rows == BookRels(rs, b)
        n == Cardinality(rows)
    IN  {s \in [1..n -> rows] :
            /\ \A i, j \in 1..n : i # j => s[i] # s[j]
            /\ \A i \in 1..n : \A j \in 1..n : i < j => s[i].order <= s[j].order}

\* Book.ordered_authors
ordered_authors(ord) == [i \in 1..Len(ord) |-> ord[i].author]

-----------------------------------------------------------------------------
(* utils.py: generation for a book *)

\* _get_main_author_code_from_book taking the last row of the query
_get_main_author_code_from_book_last(ord, nat) ==
    IF Len(ord) > 0 THEN Code(nat[ord[Len(ord)].author]) ELSE None

\* ord is the result of the order_by('order') query
_get_main_author_code_from_book(ord, nat) ==
    IF Len(ord) > 0 THEN Code(nat[ord[1].author]) ELSE None

\* the outcomes of generate_unique_isbn_from_book(book): the call for the
\* author's code, and, when there is no code or that call raised, the call
\* for "000"; swallowed is the exception of the first call that the function
\* caught and dropped
generate_unique_isbn_from_book(ord, nat, taken) ==
    LET nat_from_author == _get_main_author_code_from_book(ord, nat)
        first == IF ~Falsy(nat_from_author)
                 THEN generate_unique_isbn_for_nationality(nat_from_author, MaxTries, taken)
                 ELSE {}
        fallback == generate_unique_isbn_for_nationality(<<"0", "0", "0">>, MaxTries, taken)
        caught == {r.exc : r \in {x \in first : x.exc # "none"}}
    IN  {[swallowed |-> "none"] @@ r : r \in {x \in first : x.exc = "none"}}
        \cup (IF first = {} THEN {[swallowed |-> "none"] @@ r : r \in fallback}
              ELSE UNION {{[swallowed |-> e] @@ r : r \in fallback} : e \in caught})

-----------------------------------------------------------------------------
(* admin.py: snapshot and diff *)

SnapshotKeys ==
    {"id", "title", "genre", "cover", "adapted", "film_title", "isbn", "authors"}

\* sep.join(parts)
RECURSIVE Join(_, _)
Join(sep, parts) ==
    IF Len(parts) = 0 THEN <<>>
    ELSE IF Len(parts) = 1 THEN parts[1]
    ELSE parts[1] \o sep \o Join(sep, Tail(parts))

\* x or None
OrNone(x) == IF Falsy(x) THEN None ELSE x

\* _snapshot_book_state listing the authors by name, whatever their order
_snapshot_book_state_by_name(bks, b, ord) ==
    LET Of(a) == \E i \in 1..Len(ord) : ord[i].author = a
        authors == SelectSeq(<<"A1", "A2">>, Of)
        authors_str ==
            IF Len(authors) > 0
            THEN Join(<<", ">>, [i \in 1..Len(authors) |-> <<authors[i]>>])
            ELSE <<"None">>
    IN  [id |-> b, title |-> bks[b].title, genre |-> bks[b].genre,
         cover |-> OrNone(bks[b].cover), adapted |-> bks[b].adapted,
         film_title |-> OrNone(bks[b].film_title), isbn |-> OrNone(bks[b].isbn),
         authors |-> authors_str]

\* ord is the result of the order_by('order') query
_snapshot_book_state(bks, b, ord) ==
    LET authors == ordered_authors(ord)
        authors_str ==
            IF Len(authors) > 0
            THEN Join(<<", ">>, [i \in 1..Len(authors) |-> AuthorStr(authors[i])])
            ELSE None
    IN  [id |-> b, title |-> bks[b].title, genre |-> bks[b].genre,
         cover |-> OrNone(bks[b].cover), adapted |-> bks[b].adapted,
         film_title |-> OrNone(bks[b].film_title), isbn |-> OrNone(bks[b].isbn),
         authors |-> authors_str]

EmptyDict == [k \in {} |-> None]

\* Author.name(), which represent_related calls for an author
Author_name(a) == <<a>>

\* the authors in the order of Author.Meta.ordering (last_name, first_name)
AuthorsByName == <<"A1", "A2">>

\* instance.authors.all(): the authors of book b in the default order of Author
authors_all(rs, b) ==
    LET Of(a) == \E r \in BookRels(rs, b) : r.author = a
    IN  SelectSeq(AuthorsByName, Of)

\* utils.serialize_model_instance(book): the fields as stored, the genre by
\* its name, the authors joined in the order of authors.all()
serialize_model_instance(bks, b, rs) ==
    LET related_qs == authors_all(rs, b)
    IN  [id |-> b, title |-> bks[b].title, genre |-> bks[b].genre,
         cover |-> bks[b].cover, adapted |-> bks[b].adapted,
         film_title |-> bks[b].film_title, isbn |-> bks[b].isbn,
         authors |-> Join(<<", ">>, [i \in 1..Len(related_qs) |-> Author_name(related_qs[i])])]

\* before.get(k)
DictGet(d, k) == IF k \in DOMAIN d THEN d[k] ELSE None

\* _diff_snapshots keeping only the keys whose values differ
_diff_snapshots_changed_only(before, after) ==
    IF DOMAIN before = {} THEN EmptyDict
    ELSE [k \in {j \in DOMAIN after : DictGet(before, j) # DictGet(after, j)} |->
            <<DictGet(before, k), DictGet(after, k)>>]

\* a missing before snapshot (None) is passed as the empty dict: "not before"
\* holds of both
_diff_snapshots(before, after) ==
    IF DOMAIN before = {} THEN EmptyDict
    ELSE IF ~(\E k \in DOMAIN after : DictGet(before, k) # DictGet(after, k))
    THEN EmptyDict
    ELSE [k \in DOMAIN after |-> <<DictGet(before, k), DictGet(after, k)>>]

-----------------------------------------------------------------------------
(* admin.py: BookAdmin orchestration *)

\* the record of the last operation: what it was, on which book, the exception
\* it ended with, whether the submitted form changed nothing, whether the isbn
\* of the book carried the code of its primary author when the operation
\* began, the number of inline rows an add form carried, whether a generator
\* call of the operation ended with the RuntimeError of max_tries taken
\* candidates, the audit entry AuditLogService wrote (action, keys of its
\* changes and the changes), and the author and order an insert of a
\* BookAuthor row was called with
Last(op, b, exc, noop, audit, keys) ==
    [op |-> op, book |-> b, exc |-> exc, noop |-> noop, settled |-> FALSE,
     nauth |-> 0, exhausted |-> FALSE, audit |-> audit, keys |-> keys,
     changes |-> EmptyDict, arg |-> None]

\* a call of generate_unique_isbn_from_book with outcome g met the RuntimeError
Exhausted(g) == g.swallowed = "RuntimeError" \/ g.exc = "RuntimeError"

\* the isbn carries the code the generator uses for the first author of ord
Settled(isbn, ord, nat) ==
    /\ Len(ord) > 0
    /\ Len(isbn) >= 6
    /\ SubSeq(isbn, 4, 6) = SeedCode(Code(nat[ord[1].author]))

NoGen ==
    [input |-> None, exc |-> "none", val |-> None, ndraws |-> 0, queries |-> <<>>,
     swallowed |-> "none"]

\* inline rows of the add form: new BookAuthor rows of distinct authors
NewRowSeqs(N) ==
    UNION {{s \in [1..n -> [author : N, order : Orders]] :
              \A i, j \in 1..n : i # j => s[i].author # s[j].author}
           : n \in 0..Cardinality(N)}

\* number of inline rows one submitted change form edits
MaxFormRows == 1

\* the inline formset of a change form: rows marked for deletion, rows whose
\* order was changed, and new rows
FormSets(rs, b, A) ==
    LET cur == {r.author : r \in BookRels(rs, b)} \cap A
        curOrder(a) == (CHOOSE r \in BookRels(rs, b) : r.author = a).order
    IN  {fs \in [del : SUBSET cur,
                 chg : UNION {[X -> Orders] : X \in SUBSET cur},
                 new : NewRowSeqs(A \ cur)] :
            /\ fs.del \cap DOMAIN fs.chg = {}
            /\ \A a \in DOMAIN fs.chg : fs.chg[a] # curOrder(a)
            /\ Cardinality(fs.del) + Cardinality(DOMAIN fs.chg) + Len(fs.new)
                 <= MaxFormRows}

WithBook(seq, b) ==
    [i \in 1..Len(seq) |-> [book |-> b, author |-> seq[i].author, order |-> seq[i].order]]

\* the rows after the changed rows, then the new rows, were saved
SavedRows(rs, b, fs) ==
    LET changed == {IF r.book = b /\ r.author \in DOMAIN fs.chg
                    THEN [r EXCEPT !.order = fs.chg[r.author]] ELSE r : r \in rs}
    IN  SaveRows(changed, WithBook(fs.new, b))

\* _save_authors_from_formset: changed rows are saved, then new rows, then the
\* rows marked for deletion are deleted
_save_authors_from_formset(rs, b, fs) ==
    {r \in SavedRows(rs, b, fs) : ~(r.book = b /\ r.author \in fs.del)}

EmptyFormSet(fs) == fs.del = {} /\ DOMAIN fs.chg = {} /\ Len(fs.new) = 0

\* _update_book_isbn_if_needed emptying the isbn of a book left without authors
_update_book_isbn_if_needed_clearing(bks, b, ordF, nat, g) ==
    IF Len(ordF) = 0 THEN Return([bks EXCEPT ![b].isbn = <<>>])
    ELSE LET isbn == bks[b].isbn
             nat_code_current == _normalize_nat_code(Code(nat[ordF[1].author]))
             old_nat_code == IF Len(isbn) >= 6 THEN SubSeq(isbn, 4, 6) ELSE <<>>
         IN  IF Falsy(isbn)
             THEN IF g.exc # "none" THEN Raise(g.exc)
                  ELSE IF ~Falsy(g.val) THEN Book_save_isbn(bks, b, g.val)
                  ELSE Return(bks)
             ELSE IF Falsy(nat_code_current) \/ nat_code_current = old_nat_code
             THEN Return(bks)
             ELSE IF g.exc # "none" THEN Raise(g.exc)
             ELSE IF ~Falsy(g.val) /\ g.val # isbn THEN Book_save_isbn(bks, b, g.val)
             ELSE Return(bks)

\* _update_book_isbn_if_needed of book b: ordF is the result of its own
\* order_by query, g the outcome of book.generate_isbn() should it be called;
\* the value is the Book table it leaves
_update_book_isbn_if_needed(bks, b, ordF, nat, g) ==
    IF Len(ordF) = 0 THEN Return(bks)
    ELSE LET isbn == bks[b].isbn
             nat_code_current == _normalize_nat_code(Code(nat[ordF[1].author]))
             old_nat_code == IF Len(isbn) >= 6 THEN SubSeq(isbn, 4, 6) ELSE <<>>
         IN  IF Falsy(isbn)
             THEN IF g.exc # "none" THEN Raise(g.exc)
                  ELSE IF ~Falsy(g.val) THEN Book_save_isbn(bks, b, g.val)
                  ELSE Return(bks)
             ELSE IF Falsy(nat_code_current) \/ nat_code_current = old_nat_code
             THEN Return(bks)
             ELSE IF g.exc # "none" THEN Raise(g.exc)
             ELSE IF ~Falsy(g.val) /\ g.val # isbn THEN Book_save_isbn(bks, b, g.val)
             ELSE Return(bks)

\* AuditLogService.log_book_update: the keys of the entry it writes, none when
\* it writes no entry
log_book_update(changes) ==
    IF DOMAIN changes = {} THEN [audit |-> "none", keys |-> {}, changes |-> EmptyDict]
    ELSE [audit |-> "UPDATE", keys |-> DOMAIN changes, changes |-> changes]

\* AuditLogService.log_book_creation: the changes of the CREATE entry
log_book_creation(bks, b, rs) ==
    LET book_data == serialize_model_instance(bks, b, rs)
    IN  [key \in DOMAIN book_data |-> <<None, book_data[key]>>]

\* The admin's add view: save_model(change=False), save_formset, then
\* _finalize_book_creation.  The view runs in one transaction: an exception
\* leaves the database as it was.
AdminAddBook(title, rows) ==
    /\ NextPk(books) \in BookIds
    /\ gen' = NoGen
    /\ UNCHANGED <<nationality, past, pin, pout, proc>>
    /\ \E b \in {NextPk(books)} :
       IF <<>> \in Taken(books)
       THEN /\ last' = [Last("add", b, "IntegrityError", FALSE, "none", {})
                           EXCEPT !.nauth = Len(rows)]
            /\ UNCHANGED <<books, rels>>
       ELSE \E bks1 \in {[k \in DOMAIN books \cup {b} |->
                            IF k = b THEN NewBook(title) ELSE books[k]]},
               rs1 \in {SaveRows(rels, WithBook(rows, b))} :
            /\ \A r \in rs1 : r.order \in Orders
            /\ \E ordF \in OrderedRels(rs1, b) :
               \E g \in IF Len(ordF) > 0
                        THEN generate_unique_isbn_from_book(ordF, nationality, Taken(bks1))
                        ELSE {NoGen} :
               \E sv \in {IF Len(ordF) = 0 THEN Return(bks1)
                          ELSE IF g.exc # "none" THEN Raise(g.exc)
                          ELSE Book_save_isbn(bks1, b, g.val)} :
                 IF sv.exc # "none"
                 THEN /\ last' = [Last("add", b, sv.exc, FALSE, "none", {})
                                     EXCEPT !.nauth = Len(rows),
                                            !.exhausted = Exhausted(g)]
                      /\ UNCHANGED <<books, rels>>
                 ELSE /\ books' = sv.val
                      /\ rels' = rs1
                      /\ last' = [Last("add", b, "none", FALSE, "CREATE", SnapshotKeys)
                                     EXCEPT !.nauth = Len(rows),
                                            !.exhausted = Exhausted(g),
                                            !.changes = log_book_creation(sv.val, b, rs1)]

\* whether _update_book_isbn_if_needed calls book.generate_isbn()
UpdateGenerates(isbn, ordF, nat) ==
    /\ Len(ordF) > 0
    /\ \/ Falsy(isbn)
       \/ LET nat_code_current == _normalize_nat_code(Code(nat[ordF[1].author]))
              old_nat_code == IF Len(isbn) >= 6 THEN SubSeq(isbn, 4, 6) ELSE <<>>
          IN  ~(Falsy(nat_code_current) \/ nat_code_current = old_nat_code)

\* the change view taking the after snapshot before the isbn is updated
AdminChangeBook_early_after(b, title, fs, keep) ==
    /\ b \in DOMAIN books
    /\ gen' = NoGen
    /\ UNCHANGED <<nationality, pin, pout, proc>>
    /\ \A r \in SavedRows(rels, b, fs) : r.order \in Orders
    /\ \E bks1 \in {[books EXCEPT ![b].title = title]},
          rs1 \in {_save_authors_from_formset(rels, b, fs)},
          noop \in {title = books[b].title /\ EmptyFormSet(fs)} :
       \E ordB \in OrderedRels(rels, b), ordA \in OrderedRels(rs1, b) :
       (rs1 = rels => ordA = ordB) /\
       \E ordF \in {ordA} :
       \E called \in {UpdateGenerates(bks1[b].isbn, ordF, nationality)} :
       \E g \in IF called
                THEN generate_unique_isbn_from_book(ordF, nationality, Taken(bks1))
                ELSE {NoGen} :
       \E settled \in {Settled(books[b].isbn, ordB, nationality)} :
       \E u \in {_update_book_isbn_if_needed(bks1, b, ordF, nationality, g)} :
         IF u.exc # "none"
         THEN /\ last' = [Last("change", b, u.exc, noop, "none", {})
                            EXCEPT !.settled = settled, !.exhausted = Exhausted(g)]
              /\ UNCHANGED <<books, rels>>
         ELSE \E bks2 \in {u.val} :
              \E before \in {_snapshot_book_state(books, b, ordB)},
                 after \in {_snapshot_book_state(bks1, b, ordA)} :
              \E changes \in {_diff_snapshots(before, after)} :
              \E entry \in {IF DOMAIN changes # {} THEN log_book_update(changes)
                            ELSE [audit |-> "none", keys |-> {}, changes |-> EmptyDict]} :
                /\ books' = bks2
                /\ rels' = rs1
                /\ last' = [Last("change", b, "none", noop, entry.audit, entry.keys)
                              EXCEPT !.settled = settled, !.exhausted = Exhausted(g),
                                     !.changes = IF keep THEN entry.changes
                                                 ELSE EmptyDict]

\* The admin's change view: save_model(change=True) takes the before snapshot
\* and saves the form's fields, save_formset saves the inline rows, updates the
\* isbn, takes the after snapshot, diffs and logs.  One transaction.  The
\* history past is left to the specification; keep tells whether the record
\* of the operation keeps the changes of the UPDATE entry.
AdminChangeBook(b, title, fs, keep) ==
    /\ b \in DOMAIN books
    /\ gen' = NoGen
    /\ UNCHANGED <<nationality, pin, pout, proc>>
    /\ \A r \in SavedRows(rels, b, fs) : r.order \in Orders
    /\ \E bks1 \in {[books EXCEPT ![b].title = title]},
          rs1 \in {_save_authors_from_formset(rels, b, fs)},
          noop \in {title = books[b].title /\ EmptyFormSet(fs)} :
       \E ordB \in OrderedRels(rels, b), ordA \in OrderedRels(rs1, b) :
       (rs1 = rels => ordA = ordB) /\
       \E ordF \in {ordA} :
       \E called \in {UpdateGenerates(bks1[b].isbn, ordF, nationality)} :
       \E g \in IF called
                THEN generate_unique_isbn_from_book(ordF, nationality, Taken(bks1))
                ELSE {NoGen} :
       \E settled \in {Settled(books[b].isbn, ordB, nationality)} :
       \E u \in {_update_book_isbn_if_needed(bks1, b, ordF, nationality, g)} :
         IF u.exc # "none"
         THEN /\ last' = [Last("change", b, u.exc, noop, "none", {})
                            EXCEPT !.settled = settled, !.exhausted = Exhausted(g)]
              /\ UNCHANGED <<books, rels>>
         ELSE \E bks2 \in {u.val} :
              \E before \in {_snapshot_book_state(books, b, ordB)},
                 after \in {_snapshot_book_state(bks2, b, ordA)} :
              \E changes \in {_diff_snapshots(before, after)} :
              \E entry \in {IF DOMAIN changes # {} THEN log_book_update(changes)
                            ELSE [audit |-> "none", keys |-> {}, changes |-> EmptyDict]} :
                /\ books' = bks2
                /\ rels' = rs1
                /\ last' = [Last("change", b, "none", noop, entry.audit, entry.keys)
                              EXCEPT !.settled = settled, !.exhausted = Exhausted(g),
                                     !.changes = IF keep THEN entry.changes
                                                 ELSE EmptyDict]

\* One book of the add-multiple view (_create_single_book_from_post): the book
\* is inserted, its author attached with order 0, an isbn generated and saved.
\* No transaction spans the steps.
AddMultipleBook(title, author) ==
    /\ NextPk(books) \in BookIds
    /\ gen' = NoGen
    /\ UNCHANGED <<nationality, past, pin, pout, proc>>
    /\ \E b \in {NextPk(books)} :
       IF <<>> \in Taken(books)
       THEN /\ last' = [Last("multiple", b, "IntegrityError", FALSE, "none", {})
                           EXCEPT !.nauth = 1]
            /\ UNCHANGED <<books, rels>>
       ELSE \E bks1 \in {[k \in DOMAIN books \cup {b} |->
                            IF k = b THEN NewBook(title) ELSE books[k]]},
               rs1 \in {BookAuthor_save(rels, [book |-> b, author |-> author, order |-> 0])} :
            \E ordG \in OrderedRels(rs1, b) :
            \E g \in generate_unique_isbn_from_book(ordG, nationality, Taken(bks1)) :
            \E sv \in {IF g.exc # "none" THEN Raise(g.exc)
                       ELSE IF ~Falsy(g.val) THEN Book_save_isbn(bks1, b, g.val)
                       ELSE Return(bks1)} :
              /\ rels' = rs1
              /\ IF sv.exc # "none"
                 THEN /\ books' = bks1
                      /\ last' = [Last("multiple", b, sv.exc, FALSE, "none", {})
                                     EXCEPT !.nauth = 1, !.exhausted = Exhausted(g)]
                 ELSE /\ books' = sv.val
                      /\ last' = [Last("multiple", b, "none", FALSE, "CREATE", SnapshotKeys)
                                     EXCEPT !.nauth = 1, !.exhausted = Exhausted(g),
                                            !.changes = log_book_creation(sv.val, b, rs1)]

\* AuthorAdmin: the nationality of an author is edited unless the field is
\* read-only (get_readonly_fields)
AuthorNationalityReadonly(rs, a) == \E r \in rs : r.author = a /\ r.order = 1

AdminChangeAuthor(a, n) ==
    /\ ~AuthorNationalityReadonly(rels, a)
    /\ n # nationality[a]
    /\ nationality' = [nationality EXCEPT ![a] = n]
    /\ last' = Last("author", 0, "none", FALSE, "none", {})
    /\ gen' = NoGen
    /\ UNCHANGED <<books, rels, past, pin, pout, proc>>

\* the order a BookAuthor is created with: an order argument, or none, for
\* which the field has default=1
OrderArgs ==
    {[given |-> TRUE, order |-> o] : o \in Orders} \cup {[given |-> FALSE, order |-> 1]}

\* BookAuthor.objects.create(book=b, author=a[, order=o.order])
InsertBookAuthor(b, a, o) ==
    /\ b \in DOMAIN books
    /\ \E c \in {BookAuthor_objects_create(rels, [book |-> b, author |-> a,
                                                   order |-> o.order])} :
         /\ rels' = IF c.exc = "none" THEN c.val ELSE rels
         /\ last' = [Last("insert", b, c.exc, FALSE, "none", {})
                       EXCEPT !.arg = [author |-> a, given |-> o.given,
                                       order |-> o.order]]
    /\ gen' = NoGen
    /\ UNCHANGED <<books, nationality, past, pin, pout, proc>>

-----------------------------------------------------------------------------
(* management/commands/admin_init_book.py: one row of the bulk import *)

\* isbn cells of the imported sheet: a well-formed isbn, one with a wrong check
\* digit, one with a prefix that is neither 978 nor 979, one that is too short
ImportIsbns ==
    {<<"9", "7", "8", "6", "0", "0", "0", "0", "0", "0", "0", "0", "4">>,
     <<"9", "7", "8", "6", "0", "0", "0", "0", "0", "0", "0", "0", "0">>,
     <<"1", "2", "3", "6", "0", "0", "0", "0", "0", "0", "0", "0", "2">>,
     <<"9", "7", "8", "6", "0", "0">>}

\* the authors column: one or two distinct authors
ImportAuthors(A) ==
    {s \in UNION {[1..n -> A] : n \in 1..2} :
        \A i, j \in 1..Len(s) : i # j => s[i] # s[j]}

\* Command.handle for one row: title, isbn, authors and the nationality named
\* first in the nationalities column
ImportBook(title, isbn, authors, nat0) ==
    LET b == NextPk(books) IN
    /\ b \in BookIds
    /\ gen' = NoGen
    /\ UNCHANGED <<nationality, past, pin, pout, proc>>
    /\ IF \/ ~(StrIsDigit(isbn) /\ Len(isbn) = 13)
          \/ RJustZero(Code(nat0), 3) # SubSeq(isbn, 4, 6)
          \/ isbn \in Taken(books)
       THEN /\ last' = Last("import", b, "skipped", FALSE, "none", {})
            /\ UNCHANGED <<books, rels>>
       ELSE /\ books' = [k \in DOMAIN books \cup {b} |->
                           IF k = b THEN [NewBook(title) EXCEPT !.isbn = isbn]
                           ELSE books[k]]
            /\ rels' = rels \cup {[book |-> b, author |-> authors[i], order |-> i]
                                   : i \in 1..Len(authors)}
            /\ last' = Last("import", b, "none", FALSE, "none", {})

-----------------------------------------------------------------------------
(* direct calls of the generator *)

\* length of the strings the pure functions are called with
MaxRawLen == 4

\* every string of at most n characters of C
RECURSIVE StringsUpTo(_, _)
StringsUpTo(C, n) ==
    IF n = 0 THEN {<<>>}
    ELSE LET shorter == StringsUpTo(C, n - 1) IN
         shorter \cup {Append(s, c) : s \in {t \in shorter : Len(t) = n - 1}, c \in C}

\* codes the generator is called with: absent, empty, malformed, allowed and
\* disallowed ones
GenCodes ==
    {None, <<>>, <<" ">>, <<"a">>, <<"6">>, <<"6", "0", "0">>, <<"6", "a", "0", "1">>,
     <<"6", "2", "1", "9">>, <<"6", "2", "2">>, <<"9", "5", "0">>, <<"1", "1", "1">>,
     <<"5", "0", "0">>, <<"sup2">>, <<"6", "sup2", "0">>, <<"ar6", "0", "0">>}

\* generate_unique_isbn_for_nationality(nat_code): nothing is stored
GenerateForNationality(nat_code) ==
    /\ gen' \in generate_unique_isbn_for_nationality(nat_code, MaxTries, Taken(books))
    /\ last' = Last("generate", 0, gen'.exc, FALSE, "none", {})
    /\ UNCHANGED <<books, rels, nationality, past, pin, pout, proc>>

\* book.generate_isbn() (Book.generate_isbn): nothing is stored
BookGenerateIsbn(b) ==
    /\ b \in DOMAIN books
    /\ \E ordG \in OrderedRels(rels, b) :
         gen' \in generate_unique_isbn_from_book(ordG, nationality, Taken(books))
    /\ last' = Last("generate", b, gen'.exc, FALSE, "none", {})
    /\ UNCHANGED <<books, rels, nationality, past, pin, pout, proc>>

-----------------------------------------------------------------------------
(* requests served side by side *)

Idle == [pc |-> "idle"]

NoProc == [chg |-> [b \in BookIds |-> Idle], ins |-> [a \in Authors |-> Idle]]

\* The change view of book b, saved with no field and no row changed, up to
\* the return of book.generate_isbn() in _update_book_isbn_if_needed: the
\* before snapshot is taken and the generator has queried the Book table.
ChangeGenerate(b) ==
    /\ b \in DOMAIN books
    /\ proc.chg[b].pc = "idle"
    /\ \E ordF \in OrderedRels(rels, b) :
         /\ UpdateGenerates(books[b].isbn, ordF, nationality)
         /\ \E g \in generate_unique_isbn_from_book(ordF, nationality, Taken(books)) :
              proc' = [proc EXCEPT !.chg[b] =
                         [pc |-> "save", ord |-> ordF, old |-> books[b].isbn, g |-> g]]
    /\ UNCHANGED <<books, rels, nationality, past, last, gen, pin, pout>>

\* The rest of that change view: book.save(update_fields=['isbn']) against the
\* Book table as it is now, then the after snapshot, the diff and the entry.
\* An exception ends the request and rolls its transaction back.
ChangeSave(b) ==
    /\ proc.chg[b].pc = "save"
    /\ \E ordF \in {proc.chg[b].ord}, g \in {proc.chg[b].g} :
       \E u \in {_update_book_isbn_if_needed(books, b, ordF, nationality, g)} :
         IF u.exc # "none"
         THEN /\ proc' = [proc EXCEPT !.chg[b] = [@ EXCEPT !.pc = "done"] @@ [exc |-> u.exc]]
              /\ last' = [Last("change", b, u.exc, TRUE, "none", {})
                            EXCEPT !.exhausted = Exhausted(g)]
              /\ UNCHANGED books
         ELSE \E before \in {_snapshot_book_state(books, b, ordF)},
                 after \in {_snapshot_book_state(u.val, b, ordF)} :
              \E entry \in {log_book_update(_diff_snapshots(before, after))} :
                /\ proc' = [proc EXCEPT !.chg[b] = [@ EXCEPT !.pc = "done"] @@ [exc |-> "none"]]
                /\ books' = u.val
                /\ last' = [Last("change", b, "none", TRUE, entry.audit, entry.keys)
                              EXCEPT !.exhausted = Exhausted(g)]
    /\ gen' = NoGen
    /\ UNCHANGED <<rels, nationality, past, pin, pout>>

\* BookAuthor(book=b, author=a).save() up to the result of the aggregate
\* query: no order was given, so the field holds its default 1, the row has
\* no pk, and the highest order of the rows of b is read.
InsertRead(b, a) ==
    /\ b \in DOMAIN books
    /\ proc.ins[a].pc = "idle"
    /\ \E existing \in {{r.order : r \in BookRels(rels, b)}} :
         proc' = [proc EXCEPT !.ins[a] =
                    [pc |-> "write", book |-> b,
                     existing_max |-> IF existing = {}
                                      THEN [is_none |-> TRUE, max_order |-> 0]
                                      ELSE [is_none |-> FALSE, max_order |-> SetMax(existing)]]]
    /\ UNCHANGED <<books, rels, nationality, past, last, gen, pin, pout>>

\* The rest of that save: the order is set from the value read and
\* super().save() inserts the row into the table as it is now; the
\* constraint unique_book_author refuses a second row of the pair.
InsertWrite(a) ==
    /\ proc.ins[a].pc = "write"
    /\ \E b \in {proc.ins[a].book}, existing_max \in {proc.ins[a].existing_max} :
       \E row \in {[book |-> b, author |-> a,
                     order |-> IF ~existing_max.is_none
                               THEN existing_max.max_order + 1 ELSE 1]} :
         IF \E r \in rels : r.book = b /\ r.author = a
         THEN /\ UNCHANGED rels
              /\ last' = [Last("insert", b, "IntegrityError", FALSE, "none", {})
                            EXCEPT !.arg = [author |-> a, given |-> FALSE, order |-> 1]]
         ELSE /\ rels' = rels \cup {row}
              /\ last' = [Last("insert", b, "none", FALSE, "none", {})
                            EXCEPT !.arg = [author |-> a, given |-> FALSE, order |-> 1]]
    /\ proc' = [proc EXCEPT !.ins[a] = Idle]
    /\ gen' = NoGen
    /\ UNCHANGED <<books, nationality, past, pin, pout>>

-----------------------------------------------------------------------------
(* calls of the pure functions *)

NoCall == [fn |-> "none", arg |-> None]
Pending == [done |-> FALSE, res |-> None]

\* inputs of isbn13_check_digit that are not 12 characters "0".."9": one
\* position holds a letter, a blank or a digit character outside "0".."9", or
\* the length is not 12
CheckDigitOtherInputs ==
    {[k \in 1..12 |-> IF k = i THEN x ELSE z] :
        i \in 1..12, x \in {"a", " "} \cup UnicodeDigits, z \in {"0", "9"}}
    \cup {[k \in 1..n |-> "0"] : n \in {0, 11, 13}}

\* inputs of isbn13_check_digit: 12 characters of which any two positions hold
\* any digits and the others one filler digit, and the inputs above
CheckDigitInputs ==
    {[k \in 1..12 |-> IF k = i THEN x ELSE IF k = j THEN y ELSE z] :
        i \in 1..12, j \in 1..12, x \in AsciiDigits, y \in AsciiDigits, z \in {"0", "9"}}
    \cup CheckDigitOtherInputs

\* inputs of _normalize_nat_code
NormalizeChars == {"0", "2", "6", "a", " ", "ar6", "sup2"}
NormalizeInputs == {None} \cup StringsUpTo(NormalizeChars, MaxRawLen)

\* inputs of _is_allowed_nat_code: the 3-digit codes
AllowedInputs == [1..3 -> AsciiDigits]

\* inputs of _diff_snapshots: two snapshots of one book
SnapshotInputs ==
    [id : {1}, title : Titles, genre : {<<"G">>}, cover : {None}, adapted : BOOLEAN,
     film_title : {None, <<"F">>},
     isbn : {None, <<"9", "7", "8", "6", "0", "0", "0", "0", "0", "0", "0", "0", "4">>},
     authors : {None, <<"A1">>, <<"A1", ", ", "A2">>, <<"A2", ", ", "A1">>}]

\* inputs of _get_main_author_code_from_book: the BookAuthor rows of book 1,
\* at most one for an author, and the nationalities of the authors
MainAuthorInputs ==
    [rels : {rs \in SUBSET [book : {1}, author : Authors, order : Orders] :
               \A r1 \in rs : \A r2 \in rs : r1.author = r2.author => r1 = r2},
     nat : [Authors -> Nationalities \cup ShortNationalities]]

PureCalls ==
    [fn : {"isbn13_check_digit"}, arg : CheckDigitInputs]
    \cup [fn : {"_normalize_nat_code"}, arg : NormalizeInputs]
    \cup [fn : {"_is_allowed_nat_code"}, arg : AllowedInputs]
    \cup [fn : {"_diff_snapshots"}, arg : SnapshotInputs \X SnapshotInputs]
    \cup [fn : {"_get_main_author_code_from_book"}, arg : MainAuthorInputs]

CallCheckDigit ==
    /\ pin.fn = "isbn13_check_digit" /\ ~pout.done
    /\ pout' = [done |-> TRUE, res |-> isbn13_check_digit(pin.arg)]
    /\ UNCHANGED <<books, rels, nationality, past, last, gen, pin, proc>>

CallNormalize ==
    /\ pin.fn = "_normalize_nat_code" /\ ~pout.done
    /\ pout' = [done |-> TRUE, res |-> _normalize_nat_code(pin.arg)]
    /\ UNCHANGED <<books, rels, nationality, past, last, gen, pin, proc>>

CallIsAllowed ==
    /\ pin.fn = "_is_allowed_nat_code" /\ ~pout.done
    /\ pout' = [done |-> TRUE, res |-> _is_allowed_nat_code(pin.arg)]
    /\ UNCHANGED <<books, rels, nationality, past, last, gen, pin, proc>>

CallDiff ==
    /\ pin.fn = "_diff_snapshots" /\ ~pout.done
    /\ pout' = [done |-> TRUE, res |-> _diff_snapshots(pin.arg[1], pin.arg[2])]
    /\ UNCHANGED <<books, rels, nationality, past, last, gen, pin, proc>>

CallMainAuthorCode ==
    /\ pin.fn = "_get_main_author_code_from_book" /\ ~pout.done
    /\ \E ord \in OrderedRels(pin.arg.rels, 1) :
         pout' = [done |-> TRUE,
                  res |-> _get_main_author_code_from_book(ord, pin.arg.nat)]
    /\ UNCHANGED <<books, rels, nationality, past, last, gen, pin, proc>>

-----------------------------------------------------------------------------
(* Specifications *)

\* an empty Book table; the authors exist, with the nationality of code 600
InitDb ==
    /\ books = [k \in {} |-> NewBook(<<"T1">>)]
    /\ rels = {}
    /\ nationality = [a \in Authors |-> "N600"]
    /\ past = {}
    /\ last = Last("none", 0, "none", FALSE, "none", {})
    /\ gen = NoGen
    /\ proc = NoProc

Init == InitDb /\ pin = NoCall /\ pout = Pending

\* The catalogue of up to MaxBooks books: books are added by the admin's add
\* view, the add-multiple view and the import, and changed by the admin's
\* change view, all of one title and one author whose nationality is edited.
CatTitles == {<<"T1">>}
CatAuthors == {"A1"}

Next ==
    \/ \E title \in CatTitles, rows \in NewRowSeqs(CatAuthors) : AdminAddBook(title, rows)
    \/ \E b \in BookIds, title \in CatTitles :
         \E fs \in FormSets(rels, b, CatAuthors) :
           AdminChangeBook(b, title, fs, FALSE) /\ UNCHANGED past
    \/ \E title \in CatTitles, a \in CatAuthors : AddMultipleBook(title, a)
    \/ \E title \in CatTitles, isbn \in ImportIsbns, authors \in ImportAuthors(CatAuthors),
          nat0 \in Nationalities : ImportBook(title, isbn, authors, nat0)
    \/ \E a \in CatAuthors, n \in Nationalities : AdminChangeAuthor(a, n)

Spec == Init /\ [][Next]_vars

\* One book: it is added to the empty table and then changed, with every
\* title, author, order and nationality.
NextBook ==
    \/ \E title \in Titles, rows \in NewRowSeqs(Authors) :
         DOMAIN books = {} /\ AdminAddBook(title, rows)
    \/ \E title \in Titles, a \in Authors :
         DOMAIN books = {} /\ AddMultipleBook(title, a)
    \/ \E b \in BookIds, title \in Titles :
         \E fs \in FormSets(rels, b, Authors) :
           AdminChangeBook(b, title, fs, FALSE) /\ UNCHANGED past
    \/ \E a \in Authors, n \in Nationalities : AdminChangeAuthor(a, n)

SpecBook == Init /\ [][NextBook]_vars

\* The catalogue with its history: past gains the isbn values a change takes
\* from books, the first MaxPast of them.
MaxPast == 1

Recorded ==
    past' = IF Cardinality(past) < MaxPast
            THEN past \cup {[book |-> b, isbn |-> books[b].isbn] :
                              b \in {k \in DOMAIN books :
                                       /\ books[k].isbn # <<>>
                                       /\ books'[k].isbn # books[k].isbn}}
            ELSE past

HistNationalities == {"N600", "N601"}

NextHist ==
    \/ \E title \in CatTitles, a \in CatAuthors : AddMultipleBook(title, a)
    \/ \E b \in BookIds, title \in CatTitles :
         \E fs \in FormSets(rels, b, CatAuthors) :
           AdminChangeBook(b, title, fs, FALSE) /\ Recorded
    \/ \E a \in CatAuthors, n \in HistNationalities : AdminChangeAuthor(a, n)

SpecHist == Init /\ [][NextHist]_vars

\* One book and the changes of its audit entries: the authors have allowed
\* codes.
NextAudit ==
    \/ \E title \in Titles : \E rows \in NewRowSeqs(Authors) :
         DOMAIN books = {} /\ AdminAddBook(title, rows)
    \/ \E title \in Titles, a \in Authors :
         DOMAIN books = {} /\ AddMultipleBook(title, a)
    \/ \E b \in BookIds, title \in Titles :
         \E fs \in FormSets(rels, b, Authors) :
           AdminChangeBook(b, title, fs, TRUE) /\ UNCHANGED past
    \/ \E a \in Authors, n \in HistNationalities : AdminChangeAuthor(a, n)

SpecAudit == Init /\ [][NextAudit]_vars

\* The BookAuthor rows of books, inserted one by one with every order and
\* with none.
NextRows ==
    \/ \E title \in CatTitles : AdminAddBook(title, <<>>)
    \/ \E title \in CatTitles, a \in Authors : AddMultipleBook(title, a)
    \/ \E b \in BookIds, a \in Authors, o \in OrderArgs :
         InsertBookAuthor(b, a, o)

SpecRows == Init /\ [][NextRows]_vars

\* Books without authors and books of one author, to which authors are
\* added without an order by saves served side by side.
NextInsert ==
    \/ \E title \in CatTitles : AdminAddBook(title, <<>>)
    \/ \E title \in CatTitles, a \in Authors : AddMultipleBook(title, a)
    \/ \E b \in BookIds, a \in Authors : InsertRead(b, a)
    \/ \E a \in Authors : InsertWrite(a)

SpecInsert == Init /\ [][NextInsert]_vars

\* Two books whose change views are served side by side, after their authors
\* got other codes.
NextRace ==
    \/ \E title \in CatTitles, a \in Authors : AddMultipleBook(title, a)
    \/ \E a \in Authors, n \in HistNationalities : AdminChangeAuthor(a, n)
    \/ \E b \in BookIds : ChangeGenerate(b)
    \/ \E b \in BookIds : ChangeSave(b)

SpecRace == Init /\ [][NextRace]_vars

\* the generator called against the Book table the add-multiple view fills
NextGen ==
    \/ \E title \in CatTitles, a \in CatAuthors : AddMultipleBook(title, a)
    \/ \E a \in CatAuthors, n \in Nationalities : AdminChangeAuthor(a, n)
    \/ \E c \in GenCodes : GenerateForNationality(c)
    \/ \E b \in BookIds : BookGenerateIsbn(b)

SpecGen == Init /\ [][NextGen]_vars

\* the pure functions applied to the inputs Init draws
InitPure == InitDb /\ pin \in PureCalls /\ pout = Pending

NextPure ==
    CallCheckDigit \/ CallNormalize \/ CallIsAllowed \/ CallDiff \/ CallMainAuthorCode

SpecPure == InitPure /\ [][NextPure]_vars

-----------------------------------------------------------------------------
(* Properties *)

\* a string of n characters, each one of "0".."9"
IsAsciiDigitString(s, n) == Len(s) = n /\ \A i \in 1..n : s[i] \in AsciiDigits

\* the weighted alternating digit sum of a string of decimal digits: the
\* digits at even 0-based positions, and 3 times those at odd positions
AlternatingSum(s) ==
    LET RECURSIVE Sum(_)
        Sum(S) == IF S = {} THEN 0
                  ELSE LET i == CHOOSE j \in S : TRUE
                       IN  DigitVal(s[i]) + Sum(S \ {i})
    IN  Sum({i \in 1..Len(s) : (i - 1) % 2 = 0})
        + 3 * Sum({i \in 1..Len(s) : (i - 1) % 2 = 1})

\* the books that have an isbn
WithIsbn == {b \in DOMAIN books : books[b].isbn # <<>>}

\* the last operation was a call of the generator
Generated == last.op = "generate"

\* C1: after any sequence of creations and updates no two distinct books that
\* have an isbn hold the same isbn, and no operation was refused because the
\* isbn it generated was held by another book: the unique constraint is hit
\* only while a book without isbn is in the table.
C1_UniqueIdentifiers ==
    /\ \A b1 \in WithIsbn : \A b2 \in WithIsbn :
         b1 # b2 => books[b1].isbn # books[b2].isbn
    /\ last.exc = "IntegrityError" => <<>> \in Taken(books)

\* two books created one after the other with the same code hold distinct isbn
C1_Witness ==
    /\ WithIsbn = {1, 2}
    /\ last.op \in {"add", "multiple"} /\ last.book = 2 /\ last.exc = "none"
    /\ SubSeq(books[1].isbn, 4, 6) = SubSeq(books[2].isbn, 4, 6)
    /\ books[1].isbn # books[2].isbn

\* C2: whenever the generator returns an isbn, its last existence query was
\* for that isbn and was answered false, and no book holds the isbn.
C2_ReturnedIsFree ==
    Generated /\ gen.exc = "none" =>
        /\ Len(gen.queries) >= 1
        /\ gen.queries[Len(gen.queries)] = [isbn |-> gen.val, exists |-> FALSE]
        /\ gen.val \notin Taken(books)

\* the generator returned an isbn after a candidate that a book holds
C2_Witness ==
    /\ Generated /\ gen.exc = "none"
    /\ Len(gen.queries) >= 2
    /\ gen.queries[1].exists
    /\ gen.queries[1].isbn \in Taken(books)

\* C3: the generator makes at most max_tries draws, one existence query for
\* each; when every query is answered true it makes exactly max_tries draws and
\* raises RuntimeError, and it raises RuntimeError in no other case.
C3_BoundedDraws ==
    Generated =>
        /\ gen.ndraws >= 1 /\ gen.ndraws <= MaxTries
        /\ Len(gen.queries) = gen.ndraws
        /\ (\A i \in 1..Len(gen.queries) : gen.queries[i].exists)
             => gen.ndraws = MaxTries /\ gen.exc = "RuntimeError" /\ gen.val = None
        /\ gen.exc = "RuntimeError"
             => \A i \in 1..Len(gen.queries) : gen.queries[i].exists

\* the generator gave up after max_tries candidates that books hold
C3_Witness ==
    /\ Generated /\ gen.exc = "RuntimeError"
    /\ gen.ndraws = MaxTries
    /\ \A i \in 1..Len(gen.queries) : gen.queries[i].isbn \in Taken(books)

\* C4: every isbn the generator returns is 13 digits "0".."9": a prefix 978 or
\* 979, then the normalised code when it is allowed and "000" when it is not,
\* then six digits, then the check digit of the first 12; and the generator
\* fails only by running out of tries, never because of the code.
C4_ReturnedFormat ==
    Generated =>
        /\ gen.exc = "none" =>
             /\ IsAsciiDigitString(gen.val, 13)
             /\ SubSeq(gen.val, 1, 3) \in PREFIXES
             /\ SubSeq(gen.val, 4, 6) =
                  (IF _is_allowed_nat_code(_normalize_nat_code(gen.input))
                   THEN _normalize_nat_code(gen.input) ELSE <<"0", "0", "0">>)
             /\ isbn13_check_digit(SubSeq(gen.val, 1, 12)) = Return(<<gen.val[13]>>)
        /\ gen.exc # "none" =>
             /\ gen.exc = "RuntimeError"
             /\ \A i \in 1..Len(gen.queries) : gen.queries[i].exists

\* C5: for every string d of 12 digits the check digit is one digit c with
\* the weighted alternating sum of d ++ c a multiple of 10, that is
\* c = (10 - (sum mod 10)) mod 10 for the sum of the first 12.
C5_CheckDigit ==
    pin.fn = "isbn13_check_digit" /\ pout.done /\ IsAsciiDigitString(pin.arg, 12) =>
        /\ pout.res.exc = "none"
        /\ IsAsciiDigitString(pout.res.val, 1)
        /\ AlternatingSum(pin.arg \o pout.res.val) % 10 = 0
        /\ DigitVal(pout.res.val[1]) = (10 - (AlternatingSum(pin.arg) % 10)) % 10

\* a check digit 0 for a sum that is a multiple of 10, and one that is not 0
C5_Witness ==
    /\ pin.fn = "isbn13_check_digit" /\ pout.done
    /\ pout.res.val = <<"0">>
    /\ AlternatingSum(pin.arg) % 10 = 0
    /\ AlternatingSum(pin.arg) > 0

\* C6: every isbn a book holds has the check digit of its first 12 digits as
\* its 13th digit and the prefix 978 or 979.
C6_StoredValid ==
    \A b \in WithIsbn :
        /\ Len(books[b].isbn) = 13
        /\ SubSeq(books[b].isbn, 1, 3) \in PREFIXES
        /\ isbn13_check_digit(SubSeq(books[b].isbn, 1, 12)) = Return(<<books[b].isbn[13]>>)

\* the digits "0".."9" of a string, in order
RECURSIVE AsciiDigitsOf(_)
AsciiDigitsOf(s) ==
    IF Len(s) = 0 THEN <<>>
    ELSE IF Head(s) \in AsciiDigits THEN <<Head(s)>> \o AsciiDigitsOf(Tail(s))
    ELSE AsciiDigitsOf(Tail(s))

\* C7: for every input the normalised code is exactly 3 digits "0".."9": "000"
\* for an absent or empty input or one without digits, the first 3 digits of
\* the input when it has 3 or more, and its 1 or 2 digits padded on the left
\* with zeros otherwise.
C7_Normalize ==
    pin.fn = "_normalize_nat_code" /\ pout.done =>
        LET ds == IF pin.arg = None THEN <<>> ELSE AsciiDigitsOf(pin.arg) IN
        /\ IsAsciiDigitString(pout.res, 3)
        /\ Len(ds) = 0 => pout.res = <<"0", "0", "0">>
        /\ Len(ds) >= 3 => pout.res = SubSeq(ds, 1, 3)
        /\ Len(ds) \in {1, 2} =>
             pout.res = [i \in 1..3 |-> IF i <= 3 - Len(ds) THEN "0" ELSE ds[i - (3 - Len(ds))]]

\* C8: a code of 3 digits is allowed exactly when it is 000 or 111 or its
\* value lies in 600..621 or in 950..989.
C8_IsAllowed ==
    pin.fn = "_is_allowed_nat_code" /\ pout.done =>
        LET n == 100 * DigitVal(pin.arg[1]) + 10 * DigitVal(pin.arg[2]) + DigitVal(pin.arg[3])
        IN  pout.res <=> (n = 0 \/ n = 111 \/ n \in 600..621 \/ n \in 950..989)

\* the code 621, the last of its range, was found allowed
C8_Witness ==
    /\ pin.fn = "_is_allowed_nat_code" /\ pout.done
    /\ pin.arg = <<"6", "2", "1">>
    /\ pout.res

\* the keys whose values differ in the two snapshots of a call of _diff_snapshots
Differing == {k \in SnapshotKeys : pin.arg[1][k] # pin.arg[2][k]}

C10_NoAuditOnNoop ==
    /\ last.audit = "UPDATE" => last.keys # {}
    /\ ( /\ last.op = "change" /\ last.exc = "none" /\ last.noop /\ last.settled
         /\ Cardinality(BookRels(rels, last.book)) = 1 )
       => last.audit = "none"

\* the rows of book b have pairwise different orders: order_by('order') has
\* one result
NoTies(rs, b) ==
    \A r1 \in BookRels(rs, b) : \A r2 \in BookRels(rs, b) : r1 # r2 => r1.order # r2.order

\* the code of the author of lowest order of book b, which has rows without ties
PrimaryCode(rs, b, nat) ==
    Code(nat[(CHOOSE r \in BookRels(rs, b) : \A q \in BookRels(rs, b) : r.order <= q.order).author])

\* the step is a change of book b that ended without exception
ChangeStep(b) ==
    /\ b \in DOMAIN books
    /\ last'.op = "change" /\ last'.book = b /\ last'.exc = "none"

\* C11: a change of a book that has an isbn leaves the isbn as it is when it
\* changes no BookAuthor row and the isbn carries the code of the primary
\* author, whatever that code is.
C11_FrameIdentifier ==
    [][\A b \in BookIds :
         ( /\ ChangeStep(b)
           /\ books[b].isbn # <<>>
           /\ rels' = rels /\ nationality' = nationality
           /\ BookRels(rels, b) # {} /\ NoTies(rels, b)
           /\ SubSeq(books[b].isbn, 4, 6) = SeedCode(PrimaryCode(rels, b, nationality)) )
         => books'[b].isbn = books[b].isbn]_vars

\* an isbn as the generator makes it for the code seg: 13 digits "0".."9", a
\* prefix 978 or 979, seg, six digits and the check digit of the first 12
GeneratedFor(isbn, seg) ==
    /\ IsAsciiDigitString(isbn, 13)
    /\ SubSeq(isbn, 1, 3) \in PREFIXES
    /\ SubSeq(isbn, 4, 6) = seg
    /\ isbn13_check_digit(SubSeq(isbn, 1, 12)) = Return(<<isbn[13]>>)

\* C12: a change of a book whose isbn carries 600, after which the code of its
\* primary author normalises to 601, replaces the isbn by a generated one that
\* carries 601 and differs from the old isbn.
C12_RegeneratedFor601 ==
    [][\A b \in BookIds :
         ( /\ ChangeStep(b)
           /\ Len(books[b].isbn) = 13
           /\ SubSeq(books[b].isbn, 4, 6) = <<"6", "0", "0">>
           /\ BookRels(rels', b) # {} /\ NoTies(rels', b)
           /\ _normalize_nat_code(PrimaryCode(rels', b, nationality')) = <<"6", "0", "1">> )
         => /\ GeneratedFor(books'[b].isbn, <<"6", "0", "1">>)
            /\ books'[b].isbn # books[b].isbn]_vars

\* C13: a book that has an isbn has one after every operation, also after a
\* change that removes all its authors or one whose generation fails; when the
\* isbn changes, the new one is a generated isbn.
C13_NeverCleared ==
    [][\A b \in DOMAIN books :
         books[b].isbn # <<>> =>
           /\ b \in DOMAIN books'
           /\ books'[b].isbn # <<>>
           /\ books'[b].isbn # books[b].isbn
                => GeneratedFor(books'[b].isbn, SubSeq(books'[b].isbn, 4, 6))]_vars

\* a change left a book that has an isbn without authors
C13_Witness ==
    /\ last.op = "change" /\ last.exc = "none"
    /\ last.book \in DOMAIN books
    /\ BookRels(rels, last.book) = {}
    /\ books[last.book].isbn # <<>>

\* a change of a book that has an isbn ended with the generator out of tries
C13_WitnessFailed ==
    /\ last.op = "change" /\ last.exc = "RuntimeError"
    /\ last.book \in DOMAIN books
    /\ books[last.book].isbn # <<>>

\* C14: an isbn that a book ever held is never held by another book later,
\* also after a regeneration took it from the first book.
C14_NeverReused ==
    \A p \in past : \A b \in DOMAIN books :
        b # p.book => books[b].isbn # p.isbn

\* C15: an add form submitted with no author rows creates the book in every
\* state of the table, also when another book without isbn is stored: no
\* exception, the book is stored with no isbn, and a CREATE entry is written.
C15_AuthorlessCreate ==
    (last.op = "add" /\ last.nauth = 0)
      => /\ last.exc = "none"
         /\ last.audit = "CREATE"
         /\ last.book \in DOMAIN books
         /\ books[last.book].isbn = <<>>

\* C16: a change of a book that has no isbn, after which the book has at
\* least one BookAuthor row, gives the book an isbn; when the code of its
\* primary author is 600 the isbn is a generated one that carries 600.
C16_AssignedOnFirstAuthor ==
    [][\A b \in BookIds :
         ( /\ ChangeStep(b)
           /\ books[b].isbn = <<>>
           /\ BookRels(rels', b) # {} )
         => /\ books'[b].isbn # <<>>
            /\ ( /\ NoTies(rels', b)
                 /\ PrimaryCode(rels', b, nationality') = <<"6", "0", "0">> )
               => GeneratedFor(books'[b].isbn, <<"6", "0", "0">>)]_vars

\* C17: an operation in which the generator met the RuntimeError of max_tries
\* taken candidates ends with that RuntimeError and assigns no isbn: every
\* stored book keeps its isbn, and a book the operation inserted has none.
C17_ExhaustionSurfaced ==
    [][last'.exhausted
         => /\ last'.exc = "RuntimeError"
            /\ \A b \in DOMAIN books :
                 b \in DOMAIN books' /\ books'[b].isbn = books[b].isbn
            /\ \A b \in DOMAIN books' \ DOMAIN books : books'[b].isbn = <<>>]_vars

\* C18: isbn13_check_digit raises ValueError and returns no digit for every
\* input that is not 12 characters "0".."9".
C18_InvalidInput ==
    (pin.fn = "isbn13_check_digit" /\ pout.done /\ ~IsAsciiDigitString(pin.arg, 12))
      => pout.res = Raise("ValueError")

\* the rows of lowest order among the rows rs
LowestRows(rs) == {r \in rs : \A q \in rs : r.order <= q.order}

C19_WitnessNone ==
    /\ pin.fn = "_get_main_author_code_from_book" /\ pout.done
    /\ pin.arg.rels = {}
    /\ pout.res = None

\* C20: the changes of the CREATE entry of a created book map every key of
\* its snapshot to the pair of None and the value the snapshot taken after
\* the creation has for that key, isbn and authors included.
C20_CreateIsSnapshot ==
    last.audit = "CREATE" =>
        \E ord \in OrderedRels(rels, last.book) :
          LET after == _snapshot_book_state(books, last.book, ord)
          IN  last.changes = [key \in SnapshotKeys |-> <<None, after[key]>>]

\* C20 for the keys alone: the CREATE entry has the keys of the snapshot
C20_CreateKeys ==
    last.audit = "CREATE" => DOMAIN last.changes = SnapshotKeys

\* C20 for a book created with its authors in the order of their names: the
\* entry has the values of the snapshot
C20_CreateInNameOrder ==
    ( /\ last.audit = "CREATE"
      /\ BookRels(rels, last.book) # {}
      /\ \A ord \in OrderedRels(rels, last.book) :
           ordered_authors(ord) = authors_all(rels, last.book) )
      => \E ord \in OrderedRels(rels, last.book) :
           LET after == _snapshot_book_state(books, last.book, ord)
           IN  last.changes = [key \in SnapshotKeys |-> <<None, after[key]>>]

\* the authors field of a snapshot of book b with rows rs: the strings of
\* the authors in ascending order joined by ", ", None without authors
AuthorsFields(rs, b) ==
    IF BookRels(rs, b) = {} THEN {None}
    ELSE {Join(<<", ">>, [i \in 1..Len(ord) |-> AuthorStr(ord[i].author)]) :
            ord \in OrderedRels(rs, b)}

\* C21: the authors value of every CREATE or UPDATE entry is the strings of
\* the book's authors joined by ", " in ascending order of their rows, and
\* None for a book without authors.
C21_AuthorsField ==
    last.audit \in {"CREATE", "UPDATE"}
      => last.changes["authors"][2] \in AuthorsFields(rels, last.book)

\* C21 for UPDATE entries: the old and the new authors value are those of the
\* rows before and after the change
C21_UpdateAuthors ==
    [][\A b \in BookIds :
         (ChangeStep(b) /\ last'.audit = "UPDATE")
           => /\ last'.changes["authors"][1] \in AuthorsFields(rels, b)
              /\ last'.changes["authors"][2] \in AuthorsFields(rels', b)]_vars

\* two authors of book b whose rows stand in one order in rs and in the
\* opposite order in rs2, the authors of b being the same
Reordered(rs, rs2, b) ==
    /\ {r.author : r \in BookRels(rs, b)} = {r.author : r \in BookRels(rs2, b)}
    /\ \E r1 \in BookRels(rs, b), r2 \in BookRels(rs, b) :
       \E q1 \in BookRels(rs2, b), q2 \in BookRels(rs2, b) :
         /\ r1.author = q1.author /\ r2.author = q2.author
         /\ r1.order < r2.order /\ q1.order > q2.order

\* C22: a change that writes nothing to the book and its rows finds the
\* before and the after snapshot equal and the diff empty, so no entry is
\* written; a change that puts two authors in the opposite order, the authors
\* staying the same, changes the authors value of the snapshot.
C22_SnapshotStable ==
    [][\A b \in BookIds :
         ChangeStep(b)
           => /\ (books' = books /\ rels' = rels) => last'.audit = "none"
              /\ Reordered(rels, rels', b)
                   => /\ last'.audit = "UPDATE"
                      /\ last'.changes["authors"][1] # last'.changes["authors"][2]]_vars

\* a change that put A2 before A1 and was logged with both authors values
C22_Witness ==
    /\ last.op = "change" /\ last.audit = "UPDATE"
    /\ last.changes["authors"] = << <<"A1", ", ", "A2">>, <<"A2", ", ", "A1">> >>
    /\ last.changes["title"][1] = last.changes["title"][2]
    /\ last.changes["isbn"][1] = last.changes["isbn"][2]

\* a change of a book with two authors of equal order that wrote nothing and
\* no entry
C22_WitnessUnchanged ==
    /\ last.op = "change" /\ last.exc = "none" /\ last.noop /\ last.audit = "none"
    /\ Cardinality(BookRels(rels, last.book)) = 2
    /\ ~NoTies(rels, last.book)

\* C23: change views served side by side, whose generators returned a
\* candidate each, all end without exception and with a new isbn for their
\* book, also when they hold the same candidate; the isbn values of the books
\* are pairwise different.
C23_BothAssigned ==
    /\ \A b \in DOMAIN books :
         (proc.chg[b].pc = "done" /\ proc.chg[b].g.exc = "none")
           => /\ proc.chg[b].exc = "none"
              /\ books[b].isbn # proc.chg[b].old
    /\ \A b1 \in WithIsbn : \A b2 \in WithIsbn :
         b1 # b2 => books[b1].isbn # books[b2].isbn

\* the step is an insert of a BookAuthor row for book b and author a
InsertStep(b, a) ==
    /\ b \in DOMAIN books
    /\ last'.op = "insert" /\ last'.book = b /\ last'.arg.author = a

\* C24: no two BookAuthor rows have the same book and author; an insert for
\* a pair that has a row raises IntegrityError, whatever the order, and
\* leaves the rows as they are.
C24_UniquePairs ==
    [][/\ \A r1 \in rels' : \A r2 \in rels' :
            (r1.book = r2.book /\ r1.author = r2.author) => r1 = r2
       /\ \A b \in BookIds : \A a \in Authors :
            (InsertStep(b, a) /\ \E r \in rels : r.book = b /\ r.author = a)
              => last'.exc = "IntegrityError" /\ rels' = rels]_vars

\* an insert with an order other than the stored one, for a pair that has a
\* row, was rejected
C24_Witness ==
    /\ last.op = "insert" /\ last.exc = "IntegrityError"
    /\ \E r \in rels : /\ r.book = last.book /\ r.author = last.arg.author
                       /\ last.arg.given /\ r.order # last.arg.order

\* the row of book b and author a
RowOf(rs, b, a) == CHOOSE r \in rs : r.book = b /\ r.author = a

\* C25: a row inserted with no order argument is stored with order 1 for a
\* book without rows and with the highest order of the book's rows plus 1
\* otherwise, an order above that of every row the book had: the author of
\* lowest order stays the one of lowest order.
C25_AutoOrder ==
    [][\A b \in BookIds : \A a \in Authors :
         (InsertStep(b, a) /\ ~last'.arg.given /\ last'.exc = "none")
           => /\ rels' = rels \cup {RowOf(rels', b, a)}
              /\ RowOf(rels', b, a) \notin rels
              /\ RowOf(rels', b, a).order =
                   IF BookRels(rels, b) = {} THEN 1
                   ELSE SetMax({r.order : r \in BookRels(rels, b)}) + 1
              /\ \A r \in BookRels(rels, b) : r.order < RowOf(rels', b, a).order
              /\ BookRels(rels, b) # {}
                   => LowestRows(BookRels(rels', b)) = LowestRows(BookRels(rels, b))]_vars

\* a second row inserted with no order argument, above a first row of order 2
C25_Witness ==
    /\ last.op = "insert" /\ ~last.arg.given /\ last.exc = "none"
    /\ Cardinality(BookRels(rels, last.book)) = 2
    /\ RowOf(rels, last.book, last.arg.author).order = 3
    /\ \E r \in BookRels(rels, last.book) : r.order = 2

\* C26: a row inserted with an order argument is stored with that order, for
\* every order and every set of rows the book has.
C26_ExplicitOrder ==
    [][\A b \in BookIds : \A a \in Authors :
         (InsertStep(b, a) /\ last'.arg.given /\ last'.exc = "none")
           => /\ rels' = rels \cup {RowOf(rels', b, a)}
              /\ RowOf(rels', b, a).order = last'.arg.order]_vars

\* C26 for the orders other than 1, and for order 1 on a book without rows
C26_ExplicitOrderNot1 ==
    [][\A b \in BookIds : \A a \in Authors :
         ( /\ InsertStep(b, a) /\ last'.arg.given /\ last'.exc = "none"
           /\ (last'.arg.order # 1 \/ BookRels(rels, b) = {}) )
           => /\ rels' = rels \cup {RowOf(rels', b, a)}
              /\ RowOf(rels', b, a).order = last'.arg.order]_vars

\* author a has the one row of lowest order of a book that has an isbn
IsPrimaryAuthor(bks, rs, a) ==
    \E b \in DOMAIN bks :
        /\ bks[b].isbn # <<>>
        /\ LowestRows(BookRels(rs, b)) # {}
        /\ \A r \in LowestRows(BookRels(rs, b)) : r.author = a

\* C27: the author admin changes the nationality of no author who is the
\* primary author of a book, however the book and its rows were created.
C27_PrimaryNationalityFixed ==
    [][\A a \in Authors :
         (last'.op = "author" /\ nationality'[a] # nationality[a])
           => ~IsPrimaryAuthor(books, rels, a)]_vars

\* C27 for the primary authors whose row has order 1
C27_Order1NationalityFixed ==
    [][\A a \in Authors :
         (last'.op = "author" /\ nationality'[a] # nationality[a])
           => ~\E r \in rels : r.author = a /\ r.order = 1]_vars

\* C28: the entry of a change has the old values of the state before the
\* change and the new values of the state after it; a change that gives the
\* book a first or another isbn writes an UPDATE entry whose isbn value is
\* the pair of the old isbn, or None, and the new isbn.
C28_UpdateOrder ==
    [][\A b \in BookIds :
         ChangeStep(b)
           => /\ last'.audit = "UPDATE"
                   => /\ last'.changes["title"] = <<books[b].title, books'[b].title>>
                      /\ last'.changes["authors"][1] \in AuthorsFields(rels, b)
                      /\ last'.changes["authors"][2] \in AuthorsFields(rels', b)
                      /\ last'.changes["isbn"] = <<OrNone(books[b].isbn), OrNone(books'[b].isbn)>>
              /\ books'[b].isbn # books[b].isbn
                   => /\ last'.audit = "UPDATE"
                      /\ last'.changes["isbn"] = <<OrNone(books[b].isbn), books'[b].isbn>>]_vars

\* a change that replaced an isbn of code 600 by one of code 601 and logged
\* both
C28_Witness ==
    /\ last.op = "change" /\ last.audit = "UPDATE"
    /\ Len(last.changes["isbn"][1]) = 13 /\ Len(last.changes["isbn"][2]) = 13
    /\ SubSeq(last.changes["isbn"][1], 4, 6) = <<"6", "0", "0">>
    /\ SubSeq(last.changes["isbn"][2], 4, 6) = <<"6", "0", "1">>
    /\ books[last.book].isbn = last.changes["isbn"][2]

\* a change that gave a book its first isbn and logged None and the isbn
C28_WitnessFirst ==
    /\ last.op = "change" /\ last.audit = "UPDATE"
    /\ last.changes["isbn"][1] = None
    /\ books[last.book].isbn = last.changes["isbn"][2]
    /\ Len(books[last.book].isbn) = 13

\* the step is an add, change or add-multiple of book b that ended without
\* exception and left b with authors of pairwise different orders
Orchestrated(b) ==
    /\ last'.op \in {"add", "change", "multiple"}
    /\ last'.book = b /\ last'.exc = "none"
    /\ b \in DOMAIN books'
    /\ BookRels(rels', b) # {} /\ NoTies(rels', b)

\* the isbn of book b carries the code the generator uses for its primary
\* author
CarriesPrimaryCode(bks, rs, nat, b) ==
    /\ Len(bks[b].isbn) = 13
    /\ SubSeq(bks[b].isbn, 4, 6) = SeedCode(PrimaryCode(rs, b, nat))

\* the step is a change of book b right after an add, change or add-multiple
\* of b that ended without exception, and it submits nothing new
Repeated(b) ==
    /\ ChangeStep(b) /\ last'.noop
    /\ last.op \in {"add", "change", "multiple"}
    /\ last.book = b /\ last.exc = "none"
    /\ rels' = rels /\ books'[b].title = books[b].title
    /\ BookRels(rels, b) # {} /\ NoTies(rels, b)

\* C29: after an add, change or add-multiple that ended without exception
\* and left the book with authors, the book has an isbn that carries the
\* code of its primary author, normalised when allowed and 000 otherwise;
\* the same change made again right after neither changes the isbn nor
\* writes an audit entry.
C29_SegmentAndIdempotence ==
    [][\A b \in BookIds :
         /\ Orchestrated(b) => CarriesPrimaryCode(books', rels', nationality', b)
         /\ Repeated(b) => /\ books'[b].isbn = books[b].isbn
                           /\ last'.audit = "none"]_vars

\* the first half of C29 for the operations in which the generator did not
\* run out of tries
C29_SegmentUnlessExhausted ==
    [][\A b \in BookIds :
         (Orchestrated(b) /\ ~last'.exhausted)
           => CarriesPrimaryCode(books', rels', nationality', b)]_vars

\* the second half of C29 for the books whose isbn carries the normalised
\* code of the primary author
C29_IdempotentWhenAllowed ==
    [][\A b \in BookIds :
         ( /\ Repeated(b)
           /\ Len(books[b].isbn) = 13
           /\ SubSeq(books[b].isbn, 4, 6) = _normalize_nat_code(PrimaryCode(rels, b, nationality)) )
         => /\ books'[b].isbn = books[b].isbn
            /\ last'.audit = "none"]_vars

\* C30: saves of BookAuthor rows without an order that are served side by
\* side never store two rows of one book with the same order, so the rows of
\* a book always have one row of lowest order.
C30_DistinctOrders ==
    \A b \in DOMAIN books :
        /\ NoTies(rels, b)
        /\ BookRels(rels, b) # {} => Cardinality(LowestRows(BookRels(rels, b))) = 1

\* a save that inserts its row while no other row of the book was written
\* since it read the highest order gives the row an order no other row of the
\* book has
C30_DistinctWhenSerial ==
    [][\A a \in Authors :
         ( /\ proc.ins[a].pc = "write" /\ proc'.ins[a].pc = "idle"
           /\ last'.exc = "none"
           /\ NoTies(rels, proc.ins[a].book)
           /\ proc.ins[a].existing_max =
                 (IF BookRels(rels, proc.ins[a].book) = {}
                  THEN [is_none |-> TRUE, max_order |-> 0]
                  ELSE [is_none |-> FALSE,
                        max_order |-> SetMax({r.order : r \in BookRels(rels, proc.ins[a].book)})]) )
         => NoTies(rels', proc.ins[a].book)]_vars

====
